---- MODULE Spec2Model ----
(***************************************************************************)
(* A model of src/main.py of alicloud-ipv6-ddns: the startup (load_config, *)
(* main), the address resolver (AliyunDDNS.get_interface_ipv6), the three  *)
(* remote operations (get_domain_records, add_domain_record,               *)
(* update_domain_record), the reconciliation pass (AliyunDDNS.sync) and    *)
(* the driver loop of main.                                                *)
(*                                                                         *)
(* Python strings the code inspects character by character (addresses,     *)
(* environment keys, the prefix list) are sequences of one-character       *)
(* strings; strings the code only passes along (credentials, domains) are  *)
(* TLA+ strings.  The DNS provider is outside the repository: it is a      *)
(* sequence of records, a lookup answers with the records of the domain    *)
(* whose RR equals the keyword in stored order, and every remote call may  *)
(* raise.                                                                  *)
(***************************************************************************)
EXTENDS Integers, Sequences, FiniteSets, TLC

\* ------------------------------------------------------------ bounds
\* Reconciliation passes the driver loop may start.
MaxPasses == 2
\* Mutations of the remote store by other parties.
MaxExternal == 1

\* Addresses netifaces may report for one interface when the resolver is
\* checked on its own.
MaxAddrs == 3

\* Calls of the resolver on one report of netifaces.
MaxResolverCalls == 2

\* Remote calls that may raise when the loop is left to run for ever.
MaxFailures == 1

\* ------------------------------------------------------------ strings
\* str.startswith(prefix)
StartsWith(s, p) ==
    /\ Len(p) <= Len(s)
    /\ SubSeq(s, 1, Len(p)) = p

\* c in s
Contains(s, c) == \E i \in 1..Len(s) : s[i] = c

\* The position of the first c in s, or Len(s) + 1 when there is none.
RECURSIVE FindFrom(_, _, _)
FindFrom(s, c, i) ==
    IF i > Len(s) THEN Len(s) + 1
    ELSE IF s[i] = c THEN i
    ELSE FindFrom(s, c, i + 1)

\* s.split(c)[0]
SplitFirst(s, c) == SubSeq(s, 1, FindFrom(s, c, 1) - 1)

\* s.split(c)
RECURSIVE Split(_, _)
Split(s, c) ==
    LET k == FindFrom(s, c, 1)
    IN  IF k > Len(s) THEN <<s>>
        ELSE <<SubSeq(s, 1, k - 1)>> \o Split(SubSeq(s, k + 1, Len(s)), c)

\* s.replace(old, ''), for a non-empty old
RECURSIVE RemoveAll(_, _)
RemoveAll(s, old) ==
    IF s = <<>> THEN <<>>
    ELSE IF StartsWith(s, old) THEN RemoveAll(SubSeq(s, Len(old) + 1, Len(s)), old)
    ELSE <<s[1]>> \o RemoveAll(Tail(s), old)

UpperLetters == <<"A","B","C","D","E","F","G","H","I","J","K","L","M","N","O","P","Q","R","S","T","U","V","W","X","Y","Z">>

LowerLetters == <<"a","b","c","d","e","f","g","h","i","j","k","l","m","n","o","p","q","r","s","t","u","v","w","x","y","z">>

LowerChar(c) ==
    IF \E i \in 1..Len(UpperLetters) : UpperLetters[i] = c
    THEN LowerLetters[CHOOSE i \in 1..Len(UpperLetters) : UpperLetters[i] = c]
    ELSE c

\* s.lower()
Lower(s) == [i \in 1..Len(s) |-> LowerChar(s[i])]

\* ------------------------------------------------------------ resolver
\* Python's None where a string is expected.  The code tests such a value only
\* for truth (`if not current_ip`), which None and '' answer alike.
None == <<>>

\* The prefixes get_interface_ipv6 tests.
P_fe80 == <<"f","e","8","0",":">>

P_fc00 == <<"f","c","0","0",":">>

P_fd00 == <<"f","d","0","0",":">>

P_loopback == <<":",":","1">>

P_2002 == <<"2","0","0","2",":">>

P_3ffe == <<"3","f","f","e",":">>

\* The address as netifaces reports it, zone suffix and all.
StripZone_keeps_zone(a) == a

\* ip = addr['addr'].split('%')[0]
StripZone(a) == SplitFirst(a, "%")

\* The filter without its test for 6to4 addresses.
Excluded_without_6to4(ip) ==
    \/ StartsWith(ip, P_fe80)
    \/ StartsWith(ip, P_fc00)
    \/ StartsWith(ip, P_fd00)
    \/ ip = P_loopback
    \/ StartsWith(ip, P_3ffe)
    \/ ~Contains(ip, ":")

\* The any([...]) of the filter: the address is not a public one.
Excluded(ip) ==
    \/ StartsWith(ip, P_fe80)
    \/ StartsWith(ip, P_fc00)
    \/ StartsWith(ip, P_fd00)
    \/ ip = P_loopback
    \/ StartsWith(ip, P_2002)
    \/ StartsWith(ip, P_3ffe)
    \/ ~Contains(ip, ":")

\* ip.startswith('2') or ip.startswith('3')
IsPublic(ip) == StartsWith(ip, <<"2">>) \/ StartsWith(ip, <<"3">>)

\* The loop over addrs[AF_INET6]: the zone-stripped addresses that pass the
\* filter, in enumeration order.
RECURSIVE Candidates(_)
Candidates(addrs) ==
    IF addrs = <<>> THEN <<>>
    ELSE LET ip == StripZone(Head(addrs))
         IN  IF ~Excluded(ip) /\ IsPublic(ip)
             THEN <<ip>> \o Candidates(Tail(addrs))
             ELSE Candidates(Tail(addrs))

\* A sort that puts the later of two strings of one length first.
StaysBefore_unstable(y, x) == Len(y) < Len(x)

\* Python's sort is stable: y, which came before x, stays before it unless
\* it is longer.
StaysBefore(y, x) == Len(y) <= Len(x)

\* One step of a stable sort by length: x goes after every element that is
\* not longer than it.
RECURSIVE InsertByLen(_, _)
InsertByLen(sorted, x) ==
    IF sorted = <<>> THEN <<x>>
    ELSE IF StaysBefore(Head(sorted), x)
         THEN <<Head(sorted)>> \o InsertByLen(Tail(sorted), x)
         ELSE <<x>> \o sorted

\* list.sort(key=len): stable, ascending by length.
RECURSIVE SortByLen(_)
SortByLen(l) ==
    IF l = <<>> THEN <<>>
    ELSE InsertByLen(SortByLen(SubSeq(l, 1, Len(l) - 1)), l[Len(l)])

\* What netifaces reports for the interface:
\*   kind "missing"  the interface is not in netifaces.interfaces()
\*   kind "noinet6"  ifaddresses() has no AF_INET6 entry
\*   kind "raises"   netifaces raises while it is asked
\*   kind "addrs"    the AF_INET6 addresses are net.addrs
\* The body of the try raises when netifaces does.
TryRaises(net) == net.kind = "raises"

\* get_interface_ipv6 without its handler: what the try body raises leaves it.
Uncaught_no_handler(net) == TryRaises(net)

\* except Exception around the whole body: nothing the body raises leaves
\* get_interface_ipv6.
Uncaught(net) == FALSE

get_interface_ipv6(net) ==
    IF TryRaises(net) THEN None
    ELSE IF net.kind = "missing" THEN None
    ELSE IF net.kind = "noinet6" THEN None
    ELSE LET ipv6_addrs == SortByLen(Candidates(net.addrs))
         IN  IF ipv6_addrs /= <<>> THEN ipv6_addrs[1] ELSE None

\* ------------------------------------------------------------ configuration
\* An environment variable: set or not, and its value.
Unset(default) == [set |-> FALSE, val |-> default]

Var(v) == [set |-> TRUE, val |-> v]

\* os.getenv(name, default)
getenv(var, default) == IF var.set THEN var.val ELSE default

DOMAIN_MAP_ == <<"D","O","M","A","I","N","_","M","A","P","_">>

\* A dict that puts a new key before the keys it holds.
DictSet_puts_first(d, k, v) ==
    IF \E i \in 1..Len(d) : d[i][1] = k
    THEN [i \in 1..Len(d) |-> IF d[i][1] = k THEN <<k, v>> ELSE d[i]]
    ELSE <<<<k, v>>>> \o d

\* interface_domain_map[interface] = value on a dict kept as the sequence of
\* its items in insertion order: an existing key keeps its place.
DictSet(d, k, v) ==
    IF \E i \in 1..Len(d) : d[i][1] = k
    THEN [i \in 1..Len(d) |-> IF d[i][1] = k THEN <<k, v>> ELSE d[i]]
    ELSE Append(d, <<k, v>>)

\* The loop over os.environ.items() that builds interface_domain_map.
RECURSIVE BuildMap(_, _)
BuildMap(items, d) ==
    IF items = <<>> THEN d
    ELSE LET key == Head(items)[1]
             value == Head(items)[2]
         IN  IF StartsWith(key, DOMAIN_MAP_)
             THEN BuildMap(Tail(items), DictSet(d, Lower(RemoveAll(key, DOMAIN_MAP_)), value))
             ELSE BuildMap(Tail(items), d)

\* What load_config returns when it caught an exception: five None, each
\* written as the false value of its field.
ConfigNone == [access_key_id |-> "", access_key_secret |-> "", interface_domain_map |-> <<>>, record_prefixes |-> <<>>, record_type |-> ""]

DefaultPrefixes == <<"@", ",", "*", ",", "w", "w", "w">>

load_config(env) ==
    IF ~(env.ALIYUN_ACCESS_KEY_ID.set /\ env.ALIYUN_ACCESS_KEY_ID.val /= ""
         /\ env.ALIYUN_ACCESS_KEY_SECRET.set /\ env.ALIYUN_ACCESS_KEY_SECRET.val /= "")
    THEN ConfigNone
    ELSE LET interface_domain_map == BuildMap(env.environ, <<>>)
         IN  IF interface_domain_map = <<>>
             THEN ConfigNone
             ELSE [access_key_id |-> env.ALIYUN_ACCESS_KEY_ID.val,
                   access_key_secret |-> env.ALIYUN_ACCESS_KEY_SECRET.val,
                   interface_domain_map |-> interface_domain_map,
                   record_prefixes |-> Split(getenv(env.DNS_RECORD_PREFIXES, DefaultPrefixes), ","),
                   record_type |-> getenv(env.DNS_RECORD_TYPE, "AAAA")]

\* main without the check of what load_config returned.
ConfigLoaded_unchecked(c) == TRUE

\* main's `if not all([...])` on what load_config returned.
ConfigLoaded(c) ==
    /\ c.access_key_id /= ""
    /\ c.access_key_secret /= ""
    /\ c.interface_domain_map /= <<>>
    /\ c.record_prefixes /= <<>>
    /\ c.record_type /= ""

\* ------------------------------------------------------------ inputs
ETH0 == <<"E","T","H","0">>

ETH1 == <<"E","T","H","1">>

PATH == <<"P","A","T","H">>

Env(id, secret, items, prefixes, type) == [ALIYUN_ACCESS_KEY_ID |-> id, ALIYUN_ACCESS_KEY_SECRET |-> secret, environ |-> items, DNS_RECORD_PREFIXES |-> prefixes, DNS_RECORD_TYPE |-> type]

OneBinding == <<<<PATH, "/bin">>, <<DOMAIN_MAP_ \o ETH0, "a.com">>>>

TwoDomains == <<<<DOMAIN_MAP_ \o ETH0, "a.com">>, <<DOMAIN_MAP_ \o ETH1, "b.com">>>>

SharedDomain == <<<<DOMAIN_MAP_ \o ETH0, "a.com">>, <<DOMAIN_MAP_ \o ETH1, "a.com">>>>

\* The environments the process is started in.
EnvCases ==
    { Env(Var("id"), Var("secret"), OneBinding, Var(<<"@", ",", "w">>), Unset("")),
      Env(Var("id"), Var("secret"), OneBinding, Var(<<"w", ",", "w">>), Var("AAAA")),
      Env(Var("id"), Var("secret"), TwoDomains, Var(<<"@">>), Unset("")),
      Env(Var("id"), Var("secret"), SharedDomain, Var(<<"@">>), Unset("")),
      Env(Unset(""), Var("secret"), OneBinding, Var(<<"@">>), Unset("")),
      Env(Var("id"), Var(""), OneBinding, Var(<<"@">>), Unset("")),
      Env(Var("id"), Var("secret"), <<<<PATH, "/bin">>>>, Var(<<"@">>), Unset("")),
      Env(Var("id"), Var("secret"), OneBinding, Var(<<"@">>), Var("")) }

A_linklocal == <<"f","e","8","0",":",":","1","%","e","t","h","0">>

A_db8_1 == <<"2","0","0","1",":","d","b","8",":",":","1">>

A_db8_2 == <<"2","0","0","1",":","d","b","8",":",":","2">>

A_db8_abcd == <<"2","0","0","1",":","d","b","8",":",":","a","b","c","d">>

A_db8_b == <<"2","0","0","1",":","d","b","8",":",":","b">>

A_ula_fc00 == <<"f","c","0","0",":",":","1">>

A_ula_fd00 == <<"f","d","0","0",":",":","1">>

A_ula_fd12 == <<"f","d","1","2",":",":","1">>

A_6to4 == <<"2","0","0","2",":","1",":",":","1">>

A_6bone == <<"3","f","f","e",":",":","1">>

A_nocolon == <<"2","0","0","1">>

A_3001 == <<"3","0","0","1",":",":","1">>

Zone == <<"%","e","t","h","0">>

\* What netifaces may report for an interface when it is asked.
NetCases ==
    { [kind |-> "missing", addrs |-> <<>>],
      [kind |-> "noinet6", addrs |-> <<>>],
      [kind |-> "raises", addrs |-> <<>>],
      [kind |-> "addrs", addrs |-> <<A_linklocal>>],
      [kind |-> "addrs", addrs |-> <<A_6to4 \o Zone, A_ula_fd12, A_db8_2 \o Zone>>],
      [kind |-> "addrs", addrs |-> <<A_linklocal, A_db8_abcd, A_db8_1>>],
      [kind |-> "addrs", addrs |-> <<A_db8_2 \o Zone, A_db8_1>>] }

\* A record of the provider.
Rec(id, domain, rr, value) == [RecordId |-> id, DomainName |-> domain, RR |-> rr, Value |-> value]

\* The remote stores the process may find when it starts.
StoreCases ==
    { <<>>,
      <<Rec(1, "a.com", <<"@">>, A_db8_b), Rec(2, "a.com", <<"@">>, A_db8_1)>>,
      <<Rec(1, "a.com", <<"w">>, A_db8_1), Rec(2, "b.com", <<"@">>, A_db8_b)>> }

\* ------------------------------------------------------------ provider
\* A record as get_domain_records hands it to sync: the dict's keys and the
\* two values sync reads.  No key at all is None or {}: `not record` holds.
Dict(keys, id, value) == [keys |-> keys, RecordId |-> id, Value |-> value]

NoRecord == Dict({}, 0, None)

\* The records of the store a DescribeDomainRecords request selects.
Matching(st, domain, rr) == SelectSeq(st, LAMBDA x : x.DomainName = domain /\ x.RR = rr)

\* The provider's answer to a lookup: the call raises, or it answers with the
\* matching records, whole or (answer "noValue", "noRecordId") lacking a field.
DescribeDomainRecords(st, domain, rr, answer) ==
    LET found == Matching(st, domain, rr)
        keys == CASE answer = "noValue" -> {"RecordId"}
                  [] answer = "noRecordId" -> {"Value"}
                  [] OTHER -> {"RecordId", "Value"}
    IN  [raises |-> answer = "raises",
         Record |-> [i \in 1..Len(found) |-> Dict(keys, found[i].RecordId, found[i].Value)]]

\* The provider's AddDomainRecord: a new record with a fresh RecordId.
AddDomainRecord(st, id, domain, rr, value) == Append(st, Rec(id, domain, rr, value))

\* The provider's UpdateDomainRecord: the record with that RecordId gets the
\* RR and the value.
UpdateDomainRecord(st, id, rr, value) == [i \in 1..Len(st) |-> IF st[i].RecordId = id THEN [st[i] EXCEPT !.RR = rr, !.Value = value] ELSE st[i]]

HasRecordId(st, id) == \E i \in 1..Len(st) : st[i].RecordId = id

\* ------------------------------------------------------------ reconciler
\* get_domain_records without its exception handler's `return None`: what
\* the response holds is returned although the call raised.
get_domain_records_ignoring_raise(response) ==
    IF response.Record /= <<>> THEN response.Record[1] ELSE NoRecord

\* get_domain_records that returns the last of the records.
get_domain_records_last(response) ==
    IF response.raises THEN NoRecord
    ELSE IF response.Record /= <<>> THEN response.Record[Len(response.Record)]
    ELSE NoRecord

\* get_domain_records: records[0] if records else None; None on any exception.
get_domain_records(response) ==
    IF response.raises THEN NoRecord
    ELSE IF response.Record /= <<>> THEN response.Record[1]
    ELSE NoRecord

\* sync without the `continue` on an absent address.
NotCurrentIp_never(ip) == FALSE

\* `if not current_ip`
NotCurrentIp(ip) == ip = None

\* sync updating every record it finds, equal or not.
Branch_always_update(rec, ip) ==
    IF rec.keys = {} THEN "create"
    ELSE IF "Value" \notin rec.keys \/ "RecordId" \notin rec.keys THEN "KeyError"
    ELSE "update"

\* sync with the comparison turned around: a differing record is left alone.
Branch_never_update(rec, ip) ==
    IF rec.keys = {} THEN "create"
    ELSE IF "Value" \notin rec.keys THEN "KeyError"
    ELSE "current"

\* sync that creates a record beside one whose value differs.
Branch_creates_beside(rec, ip) ==
    IF rec.keys = {} THEN "create"
    ELSE IF "Value" \notin rec.keys THEN "KeyError"
    ELSE IF rec.Value /= ip THEN "create" ELSE "current"

\* sync without the create on `not record`.
Branch_never_create(rec, ip) ==
    IF rec.keys = {} THEN "current"
    ELSE IF "Value" \notin rec.keys THEN "KeyError"
    ELSE IF rec.Value /= ip
         THEN IF "RecordId" \in rec.keys THEN "update" ELSE "KeyError"
         ELSE "current"

\* The branch sync takes on what get_domain_records returned.  Reading a key
\* the dict lacks raises KeyError, which sync does not catch.
Branch(rec, ip) ==
    IF rec.keys = {} THEN "create"
    ELSE IF "Value" \notin rec.keys THEN "KeyError"
    ELSE IF rec.Value /= ip
         THEN IF "RecordId" \in rec.keys THEN "update" ELSE "KeyError"
         ELSE "current"

\* ------------------------------------------------------------ state
VARIABLES env, store, nextId, pc, ddns, bi, ri, current_ip, record, calls, resolved, prevResolved, prevFailed, prevExternal, curExternal, passes, externals, failures, netif, returned

vars == <<env, store, nextId, pc, ddns, bi, ri, current_ip, record, calls, resolved, prevResolved, prevFailed, prevExternal, curExternal, passes, externals, failures, netif, returned>>

\* env          the process environment
\* store        the provider's records; nextId the next RecordId it assigns
\* pc           where main is: "start", "aborted" (main returned at the
\*              configuration check), "resolve" / "lookup" / "decide" (inside
\*              sync), "sleep", "stopped" (KeyboardInterrupt caught),
\*              "crashed" (an exception left main)
\* ddns         the AliyunDDNS object
\* bi, ri       the positions of sync's two loops
\* current_ip, record   sync's locals
\* calls        the remote calls of the current pass, in order
\* resolved     what the resolver returned for the bindings of the current
\*              pass, in order; prevResolved the same of the pass before
\* prevFailed   a remote call of the pass before raised
\* curExternal  another party changed the store since the current pass
\*              started; prevExternal the same of the pass before
\* passes, externals, failures   counters
\* netif        what netifaces reports when the resolver is checked on its own
\* returned     what the calls of the resolver on netif came to, in order

LoopPcs == {"resolve", "lookup", "decide", "sleep"}

Bindings == ddns.interface_domain_map

Domain(b) == Bindings[b][2]

\* A call of the log.  held is the first matching record of the store when a
\* Lookup was issued (RecordId 0: none), ret what get_domain_records returned.
Call(op, value, id, ok, held, ret) == [op |-> op, b |-> bi, r |-> ri, domain |-> Domain(bi), rr |-> ddns.rr_list[ri], ip |-> current_ip, value |-> value, id |-> id, ok |-> ok, held |-> held, ret |-> ret]

NoHeld == Rec(0, "", <<>>, None)

Failed(log) == \E i \in 1..Len(log) : ~log[i].ok

\* The process before main has done anything.
AtStart ==
    /\ nextId = 3
    /\ pc = "start"
    /\ ddns = [interface_domain_map |-> <<>>, rr_list |-> <<>>, type |-> ""]
    /\ bi = 1
    /\ ri = 1
    /\ current_ip = None
    /\ record = NoRecord
    /\ calls = <<>>
    /\ resolved = <<>>
    /\ prevResolved = <<>>
    /\ prevFailed = FALSE
    /\ prevExternal = FALSE
    /\ curExternal = FALSE
    /\ passes = 0
    /\ externals = 0
    /\ failures = 0

Init ==
    /\ env \in EnvCases
    /\ store \in StoreCases
    /\ AtStart
    /\ netif = [kind |-> "missing", addrs |-> <<>>]
    /\ returned = <<>>

\* ddns.sync() is entered: the outer loop starts at the first binding.
EnterSync(map) ==
    /\ pc' = IF map = <<>> THEN "sleep" ELSE "resolve"
    /\ bi' = 1
    /\ ri' = 1
    /\ current_ip' = None
    /\ record' = NoRecord
    /\ calls' = <<>>
    /\ resolved' = <<>>
    /\ prevResolved' = resolved
    /\ prevFailed' = Failed(calls)
    /\ prevExternal' = curExternal
    /\ curExternal' = FALSE

\* main up to the first ddns.sync(): load_config, the check of what it
\* returned, the construction of the AliyunDDNS object.
Startup ==
    /\ pc = "start"
    /\ LET c == load_config(env)
       IN  IF ~ConfigLoaded(c)
           THEN /\ pc' = "aborted"
                /\ UNCHANGED <<ddns, bi, ri, current_ip, record, calls, resolved, prevResolved, prevFailed, prevExternal, curExternal, passes>>
           ELSE /\ ddns' = [interface_domain_map |-> c.interface_domain_map, rr_list |-> c.record_prefixes, type |-> c.record_type]
                /\ EnterSync(c.interface_domain_map)
                /\ passes' = passes + 1
    /\ UNCHANGED <<env, store, nextId, externals, failures, netif, returned>>

\* Where sync goes when it is done with a binding: the next binding, or out
\* of sync into time.sleep.
AfterBinding == [pc |-> IF bi < Len(Bindings) THEN "resolve" ELSE "sleep", bi |-> bi + 1, ri |-> 1]

\* Where sync goes when it is done with a subdomain.
AfterEntry == IF ri < Len(ddns.rr_list) THEN [pc |-> "lookup", bi |-> bi, ri |-> ri + 1] ELSE AfterBinding

\* The writes without their exception handlers: what the call raises leaves
\* sync and main.
AfterWrite_propagates(raises) == IF raises THEN [pc |-> "crashed", bi |-> bi, ri |-> ri] ELSE AfterEntry

\* A write that is tried again at once when the call raises.
AfterWrite_retries(raises) == IF raises THEN [pc |-> "decide", bi |-> bi, ri |-> ri] ELSE AfterEntry

\* add_domain_record and update_domain_record catch what the call raises and
\* return False, which sync ignores: either way sync goes on.
AfterWrite(raises) == AfterEntry

Goto(pos) ==
    /\ pc' = pos.pc
    /\ bi' = pos.bi
    /\ ri' = pos.ri

\* sync that keeps the address of the pass before for a binding that had one.
ResolveFrom_cached(nets) ==
    /\ pc = "resolve"
    /\ \E net \in nets :
          LET ip == get_interface_ipv6(net)
              kept == IF bi <= Len(prevResolved) /\ prevResolved[bi] /= None THEN prevResolved[bi] ELSE ip
          IN  /\ current_ip' = kept
              /\ resolved' = Append(resolved, ip)
              /\ IF NotCurrentIp(kept) THEN Goto(AfterBinding) ELSE Goto([pc |-> "lookup", bi |-> bi, ri |-> 1])
    /\ UNCHANGED <<env, store, nextId, ddns, record, calls, prevResolved, prevFailed, prevExternal, curExternal, passes, externals, netif, returned>>

\* current_ip = self.get_interface_ipv6(interface); if not current_ip: continue
\* netifaces reports one of `nets`.
ResolveFrom(nets) ==
    /\ pc = "resolve"
    /\ \E net \in nets :
          IF Uncaught(net)
          THEN /\ pc' = "crashed"
               /\ UNCHANGED <<bi, ri, current_ip, resolved>>
          ELSE LET ip == get_interface_ipv6(net)
               IN  /\ current_ip' = ip
                   /\ resolved' = Append(resolved, ip)
                   /\ IF NotCurrentIp(ip) THEN Goto(AfterBinding) ELSE Goto([pc |-> "lookup", bi |-> bi, ri |-> 1])
    /\ UNCHANGED <<env, store, nextId, ddns, record, calls, prevResolved, prevFailed, prevExternal, curExternal, passes, externals, netif, returned>>

Resolve ==
    /\ ResolveFrom(NetCases)
    /\ UNCHANGED failures

\* The ways a Lookup may be answered: with the matching records, by raising,
\* with a first record that lacks Value or RecordId.
Answers == {"ok", "raises", "noValue", "noRecordId"}

\* record = self.get_domain_records(domain, rr), answered in one of `answers`.
LookupWith(answers) ==
    /\ pc = "lookup"
    /\ \E answer \in answers :
          LET response == DescribeDomainRecords(store, Domain(bi), ddns.rr_list[ri], answer)
              found == Matching(store, Domain(bi), ddns.rr_list[ri])
              ret == get_domain_records(response)
          IN  /\ record' = ret
              /\ calls' = Append(calls, Call("Lookup", None, 0, ~response.raises, IF found = <<>> THEN NoHeld ELSE found[1], ret))
    /\ pc' = "decide"
    /\ UNCHANGED <<env, store, nextId, ddns, bi, ri, current_ip, resolved, prevResolved, prevFailed, prevExternal, curExternal, passes, externals, netif, returned>>

Lookup ==
    /\ LookupWith(Answers)
    /\ UNCHANGED failures

\* if not record: self.add_domain_record(current_ip, domain, rr); continue
\* The call raises or not, as `outcomes` allows.
CreateWith(outcomes) ==
    /\ pc = "decide"
    /\ Branch(record, current_ip) = "create"
    /\ \E raises \in outcomes :
          /\ store' = IF raises THEN store ELSE AddDomainRecord(store, nextId, Domain(bi), ddns.rr_list[ri], current_ip)
          /\ nextId' = IF raises THEN nextId ELSE nextId + 1
          /\ calls' = Append(calls, Call("Create", current_ip, 0, ~raises, NoHeld, NoRecord))
          /\ Goto(AfterWrite(raises))
    /\ UNCHANGED <<env, ddns, current_ip, record, resolved, prevResolved, prevFailed, prevExternal, curExternal, passes, externals, netif, returned>>

Create ==
    /\ CreateWith(BOOLEAN)
    /\ UNCHANGED failures

\* self.update_domain_record(record['RecordId'], current_ip, domain, rr)
\* The call raises or not, as `outcomes` allows; it raises when the provider
\* has no record of that RecordId.
UpdateWith(outcomes) ==
    /\ pc = "decide"
    /\ Branch(record, current_ip) = "update"
    /\ \E raises \in {r \in outcomes : r \/ HasRecordId(store, record.RecordId)} :
          /\ store' = IF raises THEN store ELSE UpdateDomainRecord(store, record.RecordId, ddns.rr_list[ri], current_ip)
          /\ calls' = Append(calls, Call("Update", current_ip, record.RecordId, ~raises, NoHeld, NoRecord))
          /\ Goto(AfterWrite(raises))
    /\ UNCHANGED <<env, nextId, ddns, current_ip, record, resolved, prevResolved, prevFailed, prevExternal, curExternal, passes, externals, netif, returned>>

Update ==
    /\ UpdateWith(BOOLEAN)
    /\ UNCHANGED failures

\* The record's value is the resolved address: only a log line.
Current ==
    /\ pc = "decide"
    /\ Branch(record, current_ip) = "current"
    /\ Goto(AfterEntry)
    /\ UNCHANGED <<env, store, nextId, ddns, current_ip, record, calls, resolved, prevResolved, prevFailed, prevExternal, curExternal, passes, externals, failures, netif, returned>>

\* record['Value'] or record['RecordId'] raises KeyError: it leaves sync, and
\* main's try has no handler for it.
KeyError ==
    /\ pc = "decide"
    /\ Branch(record, current_ip) = "KeyError"
    /\ pc' = "crashed"
    /\ UNCHANGED <<env, store, nextId, ddns, bi, ri, current_ip, record, calls, resolved, prevResolved, prevFailed, prevExternal, curExternal, passes, externals, failures, netif, returned>>

\* time.sleep(update_interval) returns and the loop calls ddns.sync() again.
Sleep ==
    /\ pc = "sleep"
    /\ passes < MaxPasses
    /\ EnterSync(Bindings)
    /\ passes' = passes + 1
    /\ UNCHANGED <<env, store, nextId, ddns, externals, failures, netif, returned>>

\* KeyboardInterrupt inside main's try: caught, logged, main returns.
Interrupt ==
    /\ pc \in LoopPcs
    /\ pc' = "stopped"
    /\ UNCHANGED <<env, store, nextId, ddns, bi, ri, current_ip, record, calls, resolved, prevResolved, prevFailed, prevExternal, curExternal, passes, externals, failures, netif, returned>>

\* Another party changes a record's value or deletes a record.
External ==
    /\ pc \in LoopPcs
    /\ externals < MaxExternal
    /\ \E i \in 1..Len(store) : \E change \in {"value", "delete"} :
          store' = IF change = "value"
                   THEN [store EXCEPT ![i].Value = IF store[i].Value = A_db8_b THEN A_db8_abcd ELSE A_db8_b]
                   ELSE SubSeq(store, 1, i - 1) \o SubSeq(store, i + 1, Len(store))
    /\ externals' = externals + 1
    /\ curExternal' = TRUE
    /\ UNCHANGED <<env, nextId, pc, ddns, bi, ri, current_ip, record, calls, resolved, prevResolved, prevFailed, prevExternal, passes, failures, netif, returned>>

Next ==
    \/ Startup
    \/ Resolve
    \/ Lookup
    \/ Create
    \/ Update
    \/ Current
    \/ KeyError
    \/ Sleep
    \/ Interrupt
    \/ External

Spec == Init /\ [][Next]_vars

\* ------------------------------------------------------------ the resolver on its own
\* The addresses netifaces may report: of every kind the filter tests, with
\* and without a zone suffix, of equal and of different lengths.
AddrPool == {A_linklocal, A_ula_fc00, A_ula_fd00, A_ula_fd12, P_loopback, A_6to4 \o Zone, A_6bone, A_nocolon, A_db8_1, A_db8_2 \o Zone, A_db8_abcd, A_3001 \o Zone}

SeqsUpTo(S, n) == UNION {[1..k -> S] : k \in 0..n}

\* What netifaces may report for the interface.
ResolverInputs ==
    {[kind |-> k, addrs |-> <<>>] : k \in {"missing", "noinet6", "raises"}}
        \cup {[kind |-> "addrs", addrs |-> l] : l \in SeqsUpTo(AddrPool, MaxAddrs)}

ResolverInit ==
    /\ env = Env(Var("id"), Var("secret"), OneBinding, Var(<<"@">>), Unset(""))
    /\ store = <<>>
    /\ AtStart
    /\ netif \in ResolverInputs
    /\ returned = <<>>

\* self.get_interface_ipv6(interface), called on what netifaces reports.
CallResolver ==
    /\ Len(returned) < MaxResolverCalls
    /\ returned' = Append(returned, [raised |-> Uncaught(netif), value |-> IF Uncaught(netif) THEN None ELSE get_interface_ipv6(netif)])
    /\ UNCHANGED <<env, store, nextId, pc, ddns, bi, ri, current_ip, record, calls, resolved, prevResolved, prevFailed, prevExternal, curExternal, passes, externals, failures, netif>>

ResolverNext == CallResolver

ResolverSpec == ResolverInit /\ [][ResolverNext]_vars

\* ------------------------------------------------------------ the loop left to run
\* The configurations that pass the check of main and bind no domain to two
\* interfaces.
SteadyEnvCases ==
    {e \in EnvCases :
        LET c == load_config(e)
            m == c.interface_domain_map
        IN  /\ ConfigLoaded(c)
            /\ \A i, j \in 1..Len(m) : i /= j => m[i][2] /= m[j][2]}

SteadyInit ==
    /\ env \in SteadyEnvCases
    /\ store \in StoreCases
    /\ AtStart
    /\ netif = [kind |-> "missing", addrs |-> <<>>]
    /\ returned = <<>>

\* The resolver of a pass after the first finds for the binding what it found
\* in the pass before.
SteadyResolve ==
    /\ ResolveFrom({net \in NetCases : bi <= Len(prevResolved) => get_interface_ipv6(net) = prevResolved[bi]})
    /\ UNCHANGED failures

\* The remote calls raise MaxFailures times at most.
MayRaise == IF failures < MaxFailures THEN BOOLEAN ELSE {FALSE}

Counted == failures' = IF calls'[Len(calls')].ok THEN failures ELSE failures + 1

BoundedLookup ==
    /\ LookupWith({a \in Answers : a = "raises" => TRUE \in MayRaise})
    /\ Counted

BoundedCreate ==
    /\ CreateWith(MayRaise)
    /\ Counted

BoundedUpdate ==
    /\ UpdateWith(MayRaise)
    /\ Counted

\* time.sleep(update_interval) returns, every time.
Resume ==
    /\ pc = "sleep"
    /\ EnterSync(Bindings)
    /\ UNCHANGED <<env, store, nextId, ddns, passes, externals, failures, netif, returned>>

SteadyNext ==
    \/ Startup
    \/ SteadyResolve
    \/ BoundedLookup
    \/ BoundedCreate
    \/ BoundedUpdate
    \/ Current
    \/ KeyError
    \/ Resume

\* The process is scheduled: a step of main that can be taken is taken.
SteadySpec == SteadyInit /\ [][SteadyNext]_vars /\ WF_vars(SteadyNext)

\* ------------------------------------------------------------ claims
\* The calls of the current pass for subdomain r of binding b, by operation.
CallsOf(b, r, op) == {i \in 1..Len(calls) : calls[i].b = b /\ calls[i].r = r /\ calls[i].op = op}

\* sync is done with subdomain r of binding b in the current pass.
EntryDone(b, r) == b < bi \/ (b = bi /\ r < ri)

Lookups == {i \in 1..Len(calls) : calls[i].op = "Lookup"}

Writes == {i \in 1..Len(calls) : calls[i].op \in {"Create", "Update"}}

\* Exactly one write was issued for the subdomain of Lookup i: an `op` that
\* carries the address resolved for the binding.
OneWrite(i, op) ==
    /\ Cardinality(CallsOf(calls[i].b, calls[i].r, op)) = 1
    /\ \A k \in CallsOf(calls[i].b, calls[i].r, op) : calls[k].value = resolved[calls[i].b] /\ calls[k].value /= None
    /\ \A k \in Writes : calls[k].b = calls[i].b /\ calls[k].r = calls[i].r => calls[k].op = op

\* C2 as stated: whenever the store holds a record for the subdomain whose
\* value differs from the resolved address, the pass issues exactly one
\* Update carrying the address, and no Create, for it.
C2_UpdateWhenStoreDiffers ==
    \A i \in Lookups :
        (calls[i].held.RecordId /= 0 /\ calls[i].held.Value /= calls[i].ip /\ EntryDone(calls[i].b, calls[i].r))
            => OneWrite(i, "Update")

\* C2 as amended: whenever the store holds a record for the subdomain whose
\* value differs from the resolved address and the Lookup returns that record
\* with its RecordId and Value, the pass issues exactly one Update, for that
\* RecordId and carrying the address, and no Create, for it.
C2_UpdateWhenLookupReturnsDiffering ==
    \A i \in Lookups :
        (/\ calls[i].held.RecordId /= 0
         /\ calls[i].held.Value /= calls[i].ip
         /\ calls[i].ok
         /\ calls[i].ret.keys = {"RecordId", "Value"}
         /\ EntryDone(calls[i].b, calls[i].r))
            => /\ OneWrite(i, "Update")
               /\ \A k \in CallsOf(calls[i].b, calls[i].r, "Update") : calls[k].id = calls[i].held.RecordId

C2_Witness ==
    \E i \in Lookups :
        /\ calls[i].held.RecordId /= 0
        /\ calls[i].held.Value /= calls[i].ip
        /\ calls[i].ok
        /\ calls[i].ret.keys = {"RecordId", "Value"}
        /\ EntryDone(calls[i].b, calls[i].r)
        /\ \E k \in CallsOf(calls[i].b, calls[i].r, "Update") : calls[k].ok /\ k = i + 1

\* C3: whenever the store holds no record for the subdomain when sync looks
\* it up, the pass issues exactly one Create carrying the resolved address,
\* and no Update, for it.
C3_CreateWhenAbsent ==
    \A i \in Lookups :
        (calls[i].held.RecordId = 0 /\ EntryDone(calls[i].b, calls[i].r))
            => OneWrite(i, "Create")

C3_Witness ==
    \E i \in Lookups :
        /\ calls[i].held.RecordId = 0
        /\ calls[i].ok
        /\ EntryDone(calls[i].b, calls[i].r)
        /\ \E k \in CallsOf(calls[i].b, calls[i].r, "Create") : calls[k].ok /\ k = i + 1

\* C7: whenever a Lookup fails, sync goes on as if there were no record: it
\* issues exactly one Create carrying the resolved address, and no Update,
\* for the subdomain, also when the store holds a record for it.
C7_LookupFailureCreates ==
    /\ \A i \in Lookups :
          (~calls[i].ok /\ EntryDone(calls[i].b, calls[i].r)) => OneWrite(i, "Create")
    /\ (pc = "decide" /\ ~calls[Len(calls)].ok) => Branch(record, current_ip) = "create"

C7_Witness ==
    \E i \in Lookups :
        /\ ~calls[i].ok
        /\ calls[i].held.RecordId /= 0
        /\ EntryDone(calls[i].b, calls[i].r)
        /\ \E k \in CallsOf(calls[i].b, calls[i].r, "Create") : k = i + 1 /\ calls[k].value = calls[i].ip

\* Each binding the current pass has resolved got the address it got in the
\* pass before.
SameAddresses == \A b \in 1..Len(resolved) : resolved[b] = prevResolved[b]

\* No other party changed the store since the pass before started.
NoExternalMutation == ~prevExternal /\ ~curExternal

\* No remote call raised in the pass before or in the current pass.
NoCallFailed == ~prevFailed /\ ~Failed(calls)

\* No two bindings of one domain were resolved to different addresses.
NoContendedDomain ==
    \A b1, b2 \in 1..Len(prevResolved) :
        (Domain(b1) = Domain(b2) /\ prevResolved[b1] /= None /\ prevResolved[b2] /= None)
            => prevResolved[b1] = prevResolved[b2]

\* C1 as stated: a pass that follows a pass with the same resolved addresses
\* and no mutation of the store by others issues no Create and no Update.
C1_SecondPassNoWrites ==
    (passes >= 2 /\ SameAddresses /\ NoExternalMutation) => Writes = {}

\* C1 as amended: the same, when moreover no remote call of either pass
\* failed and no two bindings of one domain resolved to different addresses.
C1_SecondPassNoWritesWhenNoFailure ==
    (passes >= 2 /\ SameAddresses /\ NoExternalMutation /\ NoCallFailed /\ NoContendedDomain) => Writes = {}

\* A second pass that ran to its end after a first pass that wrote.
C1_Witness ==
    /\ passes = 2
    /\ pc = "sleep"
    /\ SameAddresses
    /\ NoExternalMutation
    /\ NoCallFailed
    /\ NoContendedDomain
    /\ Len(store) > 2
    /\ Cardinality(Lookups) = 2
    /\ Writes = {}

\* C4: a remote call that fails leaves sync where the same call leaves it
\* when it succeeds (a failed Lookup at the decision for the same subdomain,
\* a failed Create or Update at the next subdomain, the next binding or the
\* end of the pass), and every subdomain sync is done with, of a binding
\* with an address, got exactly one Lookup.
C4_FaultIsolation ==
    /\ [](\A b \in 1..Len(resolved) : \A r \in 1..Len(ddns.rr_list) :
            (resolved[b] /= None /\ EntryDone(b, r)) => Cardinality(CallsOf(b, r, "Lookup")) = 1)
    /\ [][(Len(calls') = Len(calls) + 1 /\ ~calls'[Len(calls')].ok)
             => IF calls'[Len(calls')].op = "Lookup"
                THEN pc' = "decide" /\ bi' = bi /\ ri' = ri
                ELSE [pc |-> pc', bi |-> bi', ri |-> ri'] = AfterEntry]_vars

\* A pass that ran to its end although its first call failed.
C4_Witness ==
    /\ pc = "sleep"
    /\ Len(calls) >= 4
    /\ ~calls[1].ok
    /\ ~calls[2].ok
    /\ \E i \in Lookups : i > 2 /\ calls[i].b = 2

\* C6: no remote call is issued for a binding whose interface the resolver
\* reported absent, and sync goes on with the next binding (or ends the pass
\* after the last one).
C6_SkipAbsent ==
    /\ [](\A b \in 1..Len(resolved) : resolved[b] = None => \A i \in 1..Len(calls) : calls[i].b /= b)
    /\ [][(pc = "resolve" /\ Len(resolved') = Len(resolved) + 1 /\ resolved'[Len(resolved')] = None)
             => /\ calls' = calls
                /\ store' = store
                /\ bi' = bi + 1
                /\ pc' = IF bi < Len(Bindings) THEN "resolve" ELSE "sleep"]_vars

\* A pass that skipped its first binding and looked up the second.
C6_Witness ==
    /\ Len(resolved) = 2
    /\ resolved[1] = None
    /\ resolved[2] /= None
    /\ \E i \in Lookups : calls[i].b = 2

\* The environment lacks a credential or holds no DOMAIN_MAP_ variable.
ConfigurationError ==
    \/ ~env.ALIYUN_ACCESS_KEY_ID.set
    \/ env.ALIYUN_ACCESS_KEY_ID.val = ""
    \/ ~env.ALIYUN_ACCESS_KEY_SECRET.set
    \/ env.ALIYUN_ACCESS_KEY_SECRET.val = ""
    \/ \A i \in 1..Len(env.environ) : ~StartsWith(env.environ[i][1], DOMAIN_MAP_)

\* C10: with a configuration error main returns at the check and nothing of
\* the core ever runs (no pass, no resolver call, no remote call); and once
\* a pass has started main never ends at the configuration check.
C10_ConfigErrorFatalAtStartupOnly ==
    /\ ConfigurationError =>
          /\ pc \in {"start", "aborted"}
          /\ passes = 0
          /\ resolved = <<>>
          /\ calls = <<>>
          /\ ddns.interface_domain_map = <<>>
    /\ passes > 0 => pc /= "aborted"

C10_Witness == ConfigurationError /\ pc = "aborted" /\ env.environ = <<<<PATH, "/bin">>>>

\* C5 as stated: no fault raised inside a pass ends the process; the driver
\* loop goes on after it.
C5_DriverSurvivesFault == pc /= "crashed"

\* C8 as stated: the driver loop is left only by the interrupt, into the
\* clean stopped state, after which nothing more happens.
C8_OnlyInterruptStopsLoop ==
    [][/\ (pc \in LoopPcs /\ pc' \notin LoopPcs) => pc' = "stopped"
       /\ pc = "stopped" => (calls' = calls /\ passes' = passes /\ store' = store)]_vars

\* C9 as stated: a pass starts only at startup or out of the idle period, the
\* idle period is entered only at the end of a pass over all bindings, and a
\* pass in progress ends only in the idle period or by the interrupt.
C9_PassesAlternateWithIdle ==
    [][/\ passes' /= passes => (passes' = passes + 1 /\ pc \in {"start", "sleep"})
       /\ (pc /= "sleep" /\ pc' = "sleep") => bi' = Len(Bindings) + 1
       /\ (pc \in {"resolve", "lookup", "decide"}) => pc' \in {"resolve", "lookup", "decide", "sleep", "stopped"}]_vars

\* ------------------------------------------------------------ claims on the resolver
\* The addresses the calls of the resolver returned.
ReturnedAddresses == {returned[i].value : i \in {j \in 1..Len(returned) : ~returned[j].raised /\ returned[j].value /= None}}

\* fc00::/7: the first seven bits are 1111110.
UniqueLocal(a) == StartsWith(a, <<"f","c">>) \/ StartsWith(a, <<"f","d">>)

\* C11: an address the resolver returns is never link-local (fe80:), never
\* unique-local, never the loopback ::1, never a 6to4 address (2002:), and
\* never a string without a colon.
C11_ResolverExclusions ==
    \A a \in ReturnedAddresses :
        /\ ~StartsWith(a, P_fe80)
        /\ ~UniqueLocal(a)
        /\ a /= P_loopback
        /\ ~StartsWith(a, P_2002)
        /\ Contains(a, ":")

\* The interface has a 6to4 address, a unique-local one and a public one, and
\* the resolver returned an address.
C11_Witness ==
    /\ ReturnedAddresses /= {}
    /\ \E i, j \in 1..Len(netif.addrs) :
          /\ StartsWith(netif.addrs[i], P_2002)
          /\ UniqueLocal(netif.addrs[j])

\* The positions, in enumeration order, of the addresses that survive the
\* filter and start with 2 or 3, and such an address without its zone suffix.
Survivors == {i \in 1..Len(netif.addrs) : ~Excluded(StripZone(netif.addrs[i])) /\ IsPublic(StripZone(netif.addrs[i]))}

Stripped(i) == StripZone(netif.addrs[i])

\* C12: when at least one address survives the filter and starts with 2 or
\* 3, every call of the resolver returns a survivor of minimal length, the
\* length taken without the zone suffix; it is the first of that length in
\* enumeration order; and the calls on one input all return the same address.
C12_ResolverSelection ==
    (netif.kind = "addrs" /\ Survivors /= {}) =>
        /\ \A k \in 1..Len(returned) :
              /\ ~returned[k].raised
              /\ \E i \in Survivors :
                    /\ returned[k].value = Stripped(i)
                    /\ \A j \in Survivors : Len(Stripped(j)) >= Len(Stripped(i))
                    /\ \A j \in Survivors : Len(Stripped(j)) = Len(Stripped(i)) => i <= j
        /\ \A k, l \in 1..Len(returned) : returned[k] = returned[l]

\* Two different survivors share the minimal length, one of them carries a
\* zone suffix that makes it the longest string reported, a longer survivor
\* comes before both, and the resolver was called twice.
C12_Witness ==
    /\ Len(returned) > 1
    /\ \E h, i, j \in Survivors :
          /\ h < i
          /\ i < j
          /\ Len(Stripped(h)) > Len(Stripped(i))
          /\ Len(Stripped(i)) = Len(Stripped(j))
          /\ Stripped(i) /= Stripped(j)
          /\ Len(netif.addrs[i]) > Len(netif.addrs[h])
          /\ returned[1].value = Stripped(i)

\* C13: whatever netifaces reports or raises, a call of the resolver raises
\* nothing: it returns None or one of the reported addresses without its
\* zone suffix; when netifaces raises it returns None.
C13_ResolverNeverRaises ==
    \A k \in 1..Len(returned) :
        /\ ~returned[k].raised
        /\ \/ returned[k].value = None
           \/ \E i \in 1..Len(netif.addrs) : returned[k].value = Stripped(i)
        /\ TryRaises(netif) => returned[k].value = None

\* netifaces raised and the resolver has returned.
C13_Witness ==
    /\ netif.kind = "raises"
    /\ Len(returned) > 0
    /\ returned[1].value = None

\* ------------------------------------------------------------ claims on the calls of a pass
\* Call k is for the same binding and subdomain as call i.
SameEntry(i, k) ==
    /\ calls[i].b = calls[k].b
    /\ calls[i].r = calls[k].r
    /\ calls[i].domain = calls[k].domain
    /\ calls[i].rr = calls[k].rr

\* C14: every Create and every Update comes right after the Lookup for the
\* same domain and subdomain in the same pass.  A Create comes after a Lookup
\* that returned nothing; an Update after a Lookup that returned a record
\* whose value differs from the resolved address, and it carries that
\* record's RecordId.  After a Lookup that returned a record whose value is
\* the resolved address, no write is issued for the subdomain.
C14_WriteGuards ==
    /\ \A k \in Writes :
          /\ k > 1
          /\ calls[k - 1].op = "Lookup"
          /\ SameEntry(k - 1, k)
          /\ calls[k].op = "Create" => calls[k - 1].ret.keys = {}
          /\ calls[k].op = "Update" =>
                /\ calls[k - 1].ret.keys = {"RecordId", "Value"}
                /\ calls[k - 1].ret.Value /= calls[k].ip
                /\ calls[k].id = calls[k - 1].ret.RecordId
    /\ \A i \in Lookups :
          ("Value" \in calls[i].ret.keys /\ calls[i].ret.Value = calls[i].ip)
              => \A k \in Writes : ~SameEntry(i, k)

\* One pass holds an Update that came through, after a Lookup that returned
\* a differing record, and a finished subdomain whose Lookup returned the
\* resolved address.
C14_Witness ==
    /\ \E k \in Writes : calls[k].op = "Update" /\ calls[k].ok /\ calls[k - 1].ok
    /\ \E i \in Lookups :
          /\ "Value" \in calls[i].ret.keys
          /\ calls[i].ret.Value = calls[i].ip
          /\ EntryDone(calls[i].b, calls[i].r)

\* The writes of the current pass for subdomain r of binding b.
WritesOf(b, r) == CallsOf(b, r, "Create") \cup CallsOf(b, r, "Update")

\* C15: in a pass, for every binding and every entry of the subdomain list,
\* at most one Lookup and at most one write are issued, also when calls
\* fail; exactly one Lookup once sync is done with the entry of a binding
\* that resolved to an address; none for a binding that did not.
C15_NoRetryWithinPass ==
    \A b \in 1..Len(Bindings) : \A r \in 1..Len(ddns.rr_list) :
        /\ Cardinality(CallsOf(b, r, "Lookup")) <= 1
        /\ Cardinality(WritesOf(b, r)) <= 1
        /\ (b <= Len(resolved) /\ resolved[b] /= None /\ EntryDone(b, r))
              => Cardinality(CallsOf(b, r, "Lookup")) = 1
        /\ (b <= Len(resolved) /\ resolved[b] = None)
              => CallsOf(b, r, "Lookup") \cup WritesOf(b, r) = {}

\* A pass has ended in which a write failed, and a Lookup failed for another
\* entry.
C15_Witness ==
    /\ pc = "sleep"
    /\ \E k \in Writes : \E i \in Lookups :
          /\ ~calls[k].ok
          /\ ~calls[i].ok
          /\ ~SameEntry(i, k)

\* Item p of the environment configures the interface `name`.
Configures(p, name) ==
    /\ StartsWith(env.environ[p][1], DOMAIN_MAP_)
    /\ Lower(RemoveAll(env.environ[p][1], DOMAIN_MAP_)) = name

\* The place of binding b in the configuration: the first item of the
\* environment that configures its interface.
ConfiguredAt(b) == CHOOSE p \in 1..Len(env.environ) : Configures(p, Bindings[b][1]) /\ \A q \in 1..(p - 1) : ~Configures(q, Bindings[b][1])

\* The bindings are in configured order; the calls of the pass are in the
\* order of bindings, then of the subdomain list, then Lookup before write;
\* a call is for a binding that was resolved before it, and carries what the
\* binding resolved to.
CallsInOrder ==
    /\ \A b \in 1..Len(Bindings) : \E p \in 1..Len(env.environ) : Configures(p, Bindings[b][1])
    /\ \A b, c \in 1..Len(Bindings) : b < c => ConfiguredAt(b) < ConfiguredAt(c)
    /\ \A i \in 1..Len(calls) :
          /\ calls[i].b <= Len(resolved)
          /\ calls[i].ip = resolved[calls[i].b]
          /\ calls[i].domain = Domain(calls[i].b)
          /\ calls[i].rr = ddns.rr_list[calls[i].r]
    /\ \A i, j \in 1..Len(calls) :
          i < j => \/ calls[i].b < calls[j].b
                   \/ calls[i].b = calls[j].b /\ calls[i].r < calls[j].r
                   \/ /\ SameEntry(i, j)
                      /\ j = i + 1
                      /\ calls[i].op = "Lookup"
                      /\ calls[j].op \in {"Create", "Update"}

\* A step issues one call at most, for the binding resolved last; a step
\* that resolves a binding issues none.
OneCallAtATime ==
    /\ Len(calls') > Len(calls) =>
          /\ Len(calls') = Len(calls) + 1
          /\ SubSeq(calls', 1, Len(calls)) = calls
          /\ calls'[Len(calls')].b = Len(resolved)
          /\ resolved' = resolved
    /\ Len(resolved') > Len(resolved) =>
          /\ Len(resolved') = Len(resolved) + 1
          /\ calls' = calls
          /\ \A i \in 1..Len(calls) : calls[i].b <= Len(resolved)

\* C16: within a pass the remote calls are issued one at a time, bindings
\* in configured order and subdomains in list order; a binding is resolved
\* before its calls, all calls of a binding come before the next binding is
\* resolved, and the write for a subdomain comes before the next Lookup.
C16_SequentialOrdering == []CallsInOrder /\ [][OneCallAtATime]_vars

\* A pass has ended that looked up and wrote for two bindings, the first
\* configured before the second.
C16_Witness ==
    /\ pc = "sleep"
    /\ \E i, j \in Writes : calls[i].b < calls[j].b /\ ConfiguredAt(calls[i].b) < ConfiguredAt(calls[j].b)
    /\ Cardinality(Lookups) > 1

\* What sync did for the subdomain of Lookup i follows from what the Lookup
\* returned and from the address `ip`: one Create carrying it after nothing,
\* one Update carrying it after a record with another value, no write after
\* a record with that value.
DecidedOn(i, ip) ==
    /\ calls[i].ip = ip
    /\ calls[i].ret.keys = {} => OneWrite(i, "Create")
    /\ (calls[i].ret.keys = {"RecordId", "Value"} /\ calls[i].ret.Value /= ip) => OneWrite(i, "Update")
    /\ ("Value" \in calls[i].ret.keys /\ calls[i].ret.Value = ip) => \A k \in Writes : ~SameEntry(i, k)

\* C17: in every pass, the first and the later ones alike, every binding
\* is resolved anew; what the pass does for a subdomain follows from the
\* address resolved in this pass and from what this pass's Lookup returned,
\* whatever the pass before resolved, wrote or failed at; a binding that
\* resolves to an address is looked up, also when the pass before skipped
\* it; every write carries the address of this pass.
C17_NoStateAcrossPasses ==
    /\ pc = "sleep" => Len(resolved) = Len(Bindings)
    /\ \A i \in Lookups : EntryDone(calls[i].b, calls[i].r) => DecidedOn(i, resolved[calls[i].b])
    /\ \A k \in Writes : calls[k].value = resolved[calls[k].b]
    /\ \A b \in 1..Len(resolved) : \A r \in 1..Len(ddns.rr_list) :
          (resolved[b] /= None /\ EntryDone(b, r)) => CallsOf(b, r, "Lookup") /= {}

\* In a pass after the first, a binding the pass before skipped has been
\* looked up and written, and a binding whose address changed since the pass
\* before has been written with the new address.
C17_Witness ==
    /\ passes > 1
    /\ \E b, c \in 1..Len(resolved) :
          /\ prevResolved[b] = None
          /\ resolved[b] /= None
          /\ \E k \in Writes : calls[k].b = b /\ calls[k].ok
          /\ prevResolved[c] /= None
          /\ resolved[c] /= None
          /\ prevResolved[c] /= resolved[c]
          /\ \E k \in Writes : calls[k].b = c /\ calls[k].ok /\ calls[k].op = "Update" /\ calls[k].value = resolved[c]

\* What a Lookup that came through returned is the first matching record
\* the store held, and what sync did for the subdomain follows from that
\* record alone: an Update of its RecordId when its value differs from the
\* resolved address, no write when it is the resolved address.
FirstMatchDecides ==
    \A i \in Lookups :
        (calls[i].ok /\ calls[i].held.RecordId /= 0) =>
            /\ calls[i].ret.keys /= {}
            /\ "RecordId" \in calls[i].ret.keys => calls[i].ret.RecordId = calls[i].held.RecordId
            /\ "Value" \in calls[i].ret.keys => calls[i].ret.Value = calls[i].held.Value
            /\ \A k \in Writes : SameEntry(i, k) =>
                  /\ calls[k].op = "Update"
                  /\ calls[k].id = calls[i].held.RecordId
                  /\ calls[i].held.Value /= calls[i].ip
            /\ (EntryDone(calls[i].b, calls[i].r) /\ calls[i].ret.keys = {"RecordId", "Value"} /\ calls[i].held.Value /= calls[i].ip)
                  => \E k \in Writes : SameEntry(i, k)

\* A step of sync changes no record but the one whose RecordId its Update
\* carries, and removes none.
OnlyUpdatedRecordChanges ==
    (Len(calls') > Len(calls) /\ calls'[Len(calls')].op = "Update") =>
        /\ Len(store') = Len(store)
        /\ \A p \in 1..Len(store) : store[p].RecordId /= calls'[Len(calls')].id => store'[p] = store[p]

\* C18: when several records match a lookup, sync compares only the first
\* returned record's value with the resolved address and updates only that
\* record's RecordId; the records after the first are neither read for the
\* decision nor written.
C18_FirstMatchAuthority == []FirstMatchDecides /\ [][OnlyUpdatedRecordChanges]_vars

\* Two records match the subdomain; the first was updated to the resolved
\* address, the second still holds another value.
C18_Witness ==
    \E k \in Writes :
        LET found == Matching(store, calls[k].domain, calls[k].rr)
        IN  /\ calls[k].op = "Update"
            /\ calls[k].ok
            /\ Len(found) > 1
            /\ found[1].RecordId = calls[k].id
            /\ found[1].Value = calls[k].value
            /\ found[2].Value /= calls[k].value

\* Every Create and every Update carries what the resolver returned in this
\* pass for the binding: an address, without zone suffix, that starts with
\* 2 or 3 and with neither 2002: nor 3ffe:.  sync issues no other call than
\* Lookup, Create and Update.
WrittenValues ==
    /\ \A i \in 1..Len(calls) : calls[i].op \in {"Lookup", "Create", "Update"}
    /\ \A k \in Writes :
          /\ calls[k].value = resolved[calls[k].b]
          /\ calls[k].value /= None
          /\ Len(calls[k].value) > 0
          /\ ~Contains(calls[k].value, "%")
          /\ calls[k].value[1] \in {"2", "3"}
          /\ ~StartsWith(calls[k].value, P_2002)
          /\ ~StartsWith(calls[k].value, P_3ffe)

\* A step that is not another party's leaves every record of the store in
\* it, under its RecordId.
NoRecordDeleted ==
    externals' = externals =>
        \A p \in 1..Len(store) : \E q \in 1..Len(store') : store'[q].RecordId = store[p].RecordId

\* C19: the value of every Create and Update is the address the resolver
\* returned in the same pass for the binding; it is never absent or empty,
\* has no % zone suffix, starts with 2 or 3 and with neither 2002: nor
\* 3ffe:; and sync never deletes a record.
C19_WrittenValues == []WrittenValues /\ [][NoRecordDeleted]_vars

\* A Create and an Update came through in a pass whose interface reported
\* an address with a zone suffix; the store holds what it held and the new
\* record.
C19_Witness ==
    /\ \E k, l \in Writes :
          /\ calls[k].op = "Create"
          /\ calls[k].ok
          /\ calls[l].op = "Update"
          /\ calls[l].ok
          /\ calls[l].value = A_db8_2
    /\ Len(store) = 3

\* ------------------------------------------------------------ claims on the loop left to run
\* What binding b resolves to, pass after pass.
SteadyAddress(b) == IF b <= Len(resolved) THEN resolved[b] ELSE prevResolved[b]

\* Every binding has been resolved, and for every subdomain of every
\* binding that resolves to an address the store holds a record with that
\* address.
Converged ==
    /\ pc \in LoopPcs
    /\ \A b \in 1..Len(Bindings) :
          /\ b <= Len(resolved) \/ b <= Len(prevResolved)
          /\ SteadyAddress(b) /= None =>
                \A r \in 1..Len(ddns.rr_list) :
                    \E p \in 1..Len(store) :
                        /\ store[p].DomainName = Domain(b)
                        /\ store[p].RR = ddns.rr_list[r]
                        /\ store[p].Value = SteadyAddress(b)

\* C20: when every interface keeps resolving to the same address, no other
\* party changes the store, no domain is bound to two interfaces and the
\* remote calls stop failing, then from some pass on every subdomain of
\* every binding has a record with the address of its interface and the
\* passes issue no Create and no Update.
C20_EventuallyConverged == <>[](Converged /\ Writes = {})

====
